---------------------------- MODULE Spec2Model ----------------------------
(***************************************************************************)
(* Smart-Query: the SQL safety validator, the connection factory and its   *)
(* handles, the in-memory store, the POST /api/queries/execute handler     *)
(* and the history routes.                                                 *)
(*                                                                         *)
(* Strings whose characters matter (SQL text, backend type tags) are       *)
(* sequences of one-character strings.  One action of the handler is one   *)
(* run-to-completion segment of the async function: from the arrival of    *)
(* the request or the completion of a backend / generator I/O call up to   *)
(* the next such call.  The awaits on MemStorage methods resolve in the    *)
(* microtask queue of the same segment (the methods contain no await), so  *)
(* they are part of the segment that calls them.                           *)
(***************************************************************************)
EXTENDS Integers, Sequences, FiniteSets, TLC

(***************************************************************************)
(* Bounds of the model.                                                    *)
(***************************************************************************)
MaxConfigs  == 3    \* configurations the store holds when exercised on its own
MaxSaved    == 2    \* configurations the store holds while a request runs
MaxClock    == 1    \* Date.now() ranges over 0..MaxClock
MaxRows     == 1    \* rows a backend query returns
MaxFrags    == 3    \* fragments concatenated into a validator input
MaxHistory  == 3    \* entries saved when the history is exercised on its own
MaxCalls    == 3    \* calls made on a connection handle exercised on its own

(***************************************************************************)
(* Character strings.                                                      *)
(***************************************************************************)
LowerLetters == <<"a", "b", "c", "d", "e", "f", "g", "h", "i", "j", "k", "l", "m",
                  "n", "o", "p", "q", "r", "s", "t", "u", "v", "w", "x", "y", "z">>
UpperLetters == <<"A", "B", "C", "D", "E", "F", "G", "H", "I", "J", "K", "L", "M",
                  "N", "O", "P", "Q", "R", "S", "T", "U", "V", "W", "X", "Y", "Z">>
LetterIndex(letters, c) == CHOOSE i \in 1..Len(letters) : letters[i] = c
IsLetterOf(letters, c) == \E i \in 1..Len(letters) : letters[i] = c

\* String.prototype.toUpperCase / toLowerCase on the characters of the model
toUpperCase(s) ==
  [i \in 1..Len(s) |->
     IF IsLetterOf(LowerLetters, s[i])
     THEN UpperLetters[LetterIndex(LowerLetters, s[i])] ELSE s[i]]
toLowerCase(s) ==
  [i \in 1..Len(s) |->
     IF IsLetterOf(UpperLetters, s[i])
     THEN LowerLetters[LetterIndex(UpperLetters, s[i])] ELSE s[i]]

\* String.prototype.trim: strips white space and line terminators at both ends
WhiteSpace == {" ", "\t", "\n"}
RECURSIVE trimStart(_)
trimStart(s) ==
  IF s # <<>> /\ Head(s) \in WhiteSpace THEN trimStart(Tail(s)) ELSE s
RECURSIVE trimEnd(_)
trimEnd(s) ==
  IF s # <<>> /\ s[Len(s)] \in WhiteSpace
  THEN trimEnd(SubSeq(s, 1, Len(s) - 1)) ELSE s
trim(s) == trimEnd(trimStart(s))

\* String.prototype.startsWith
startsWith(s, p) == Len(s) >= Len(p) /\ SubSeq(s, 1, Len(p)) = p

\* String.prototype.includes: scan for the first position where k occurs
RECURSIVE indexOfFrom(_, _, _)
indexOfFrom(s, k, i) ==
  IF i + Len(k) - 1 > Len(s) THEN 0
  ELSE IF SubSeq(s, i, i + Len(k) - 1) = k THEN i
  ELSE indexOfFrom(s, k, i + 1)
includes(s, k) == indexOfFrom(s, k, 1) # 0

\* a JavaScript value that is a string, and one that is not
JsString(chars) == [type |-> "string", chars |-> chars]
JsNumber == [type |-> "number", chars |-> <<>>]

(***************************************************************************)
(* validateSQLQuery (server/services/openai.ts).                           *)
(***************************************************************************)
SELECT   == <<"S", "E", "L", "E", "C", "T">>
INSERT   == <<"I", "N", "S", "E", "R", "T">>
UPDATE   == <<"U", "P", "D", "A", "T", "E">>
DELETE   == <<"D", "E", "L", "E", "T", "E">>
DROP     == <<"D", "R", "O", "P">>
CREATE   == <<"C", "R", "E", "A", "T", "E">>
ALTER    == <<"A", "L", "T", "E", "R">>
TRUNCATE == <<"T", "R", "U", "N", "C", "A", "T", "E">>
EXEC     == <<"E", "X", "E", "C">>
EXECUTE  == <<"E", "X", "E", "C", "U", "T", "E">>
SP_      == <<"S", "P", "_">>
XP_      == <<"X", "P", "_">>

\* a denylist that forgot the extended-procedure prefix
dangerousKeywordsNoXp ==
  <<INSERT, UPDATE, DELETE, DROP, CREATE, ALTER, TRUNCATE, EXEC, EXECUTE, SP_>>
dangerousKeywords ==
  <<INSERT, UPDATE, DELETE, DROP, CREATE, ALTER, TRUNCATE, EXEC, EXECUTE, SP_, XP_>>

\* for (const keyword of dangerousKeywords) if (upperSQL.includes(keyword)) return false
RECURSIVE keywordLoop(_, _)
keywordLoop(upperSQL, i) ==
  IF i > Len(dangerousKeywords) THEN TRUE
  ELSE IF includes(upperSQL, dangerousKeywords[i]) THEN FALSE
  ELSE keywordLoop(upperSQL, i + 1)

\* the try block of validateSQLQuery (lines 75-96): a value that is no string
\* has no toUpperCase and line 77 throws a TypeError
tryValidate(sql) ==
  IF sql.type # "string" THEN [threw |-> TRUE, value |-> FALSE]
  ELSE LET upperSQL == trim(toUpperCase(sql.chars)) IN
       [threw |-> FALSE,
        value |-> IF ~startsWith(upperSQL, SELECT) THEN FALSE
                  ELSE keywordLoop(upperSQL, 1)]

\* a validator without its catch: the TypeError rejects the promise
validateSQLQueryNoCatch(sql) ==
  [raised |-> tryValidate(sql).threw, value |-> tryValidate(sql).value]
\* how the promise returned by validateSQLQuery settles: catch { return false }
validateSQLQuerySettled(sql) ==
  [raised |-> FALSE,
   value |-> IF tryValidate(sql).threw THEN FALSE ELSE tryValidate(sql).value]

\* the value the promise returned by validateSQLQuery resolves to
validateSQLQuery(sql) == validateSQLQuerySettled(sql).value

\* validateSQLQuery is an async function: a call yields a promise of the verdict
validateSQLQueryCall(sql) == [type |-> "promise", value |-> validateSQLQuery(sql)]

\* JavaScript ToBoolean: every object, a promise included, is truthy
ToBoolean(v) == IF v.type = "boolean" THEN v.value ELSE TRUE

\* routes: if (!validateSQLQuery(sqlResult.sql)) -- the promise is not awaited
securityRejected(sql) == ~ToBoolean(validateSQLQueryCall(sql))

(***************************************************************************)
(* DatabaseManager.createConnection (the connection factory).              *)
(***************************************************************************)
postgresql == <<"p", "o", "s", "t", "g", "r", "e", "s", "q", "l">>
sqlserver  == <<"s", "q", "l", "s", "e", "r", "v", "e", "r">>
PostgreSQL == <<"P", "o", "s", "t", "g", "r", "e", "S", "Q", "L">>
mysql      == <<"m", "y", "s", "q", "l">>

\* a factory that compares the tag as it was given
createConnectionCaseSensitive(type, connectionString) ==
  IF type = sqlserver
  THEN [ok |-> TRUE, variant |-> "SQLServerConnection",
        connectionString |-> connectionString]
  ELSE IF type = postgresql
  THEN [ok |-> TRUE, variant |-> "PostgreSQLConnection",
        connectionString |-> connectionString]
  ELSE [ok |-> FALSE, variant |-> "Unsupported database type",
        connectionString |-> connectionString]
\* switch (type.toLowerCase()) { case 'sqlserver': ... case 'postgresql': ...
\* default: throw new Error(`Unsupported database type: ${type}`) }
createConnection(type, connectionString) ==
  LET tag == toLowerCase(type) IN
  IF tag = sqlserver
  THEN [ok |-> TRUE, variant |-> "SQLServerConnection",
        connectionString |-> connectionString]
  ELSE IF tag = postgresql
  THEN [ok |-> TRUE, variant |-> "PostgreSQLConnection",
        connectionString |-> connectionString]
  ELSE [ok |-> FALSE, variant |-> "Unsupported database type",
        connectionString |-> connectionString]

\* routes: dbConfig.type === 'postgresql' ? <public query> : <dbo query>
schemaQueryFor(type) == IF type = postgresql THEN "public" ELSE "dbo"

(***************************************************************************)
(* MemStorage (the configuration and history store).                       *)
(***************************************************************************)
\* what getActiveDatabaseConfig yields when find() finds nothing (undefined)
NoConfig == [id |-> 0, type |-> <<>>, connectionString |-> "", isActive |-> FALSE]

\* the constructor's default configuration
DefaultConfig ==
  [id |-> 1, type |-> postgresql, connectionString |-> "cs1", isActive |-> TRUE]

\* Array.from(values()).find(config => config.isActive)
getActiveDatabaseConfig(configs) ==
  IF \E i \in 1..Len(configs) : configs[i].isActive
  THEN configs[CHOOSE i \in 1..Len(configs) :
                 /\ configs[i].isActive
                 /\ \A j \in 1..(i - 1) : ~configs[j].isActive]
  ELSE NoConfig

\* an optional isActive of the insert schema: "true", "false" or "absent"
Truthy(flag) == flag = "true"

deactivateAll(configs) ==
  [i \in 1..Len(configs) |-> [configs[i] EXCEPT !.isActive = FALSE]]

\* a create that forgets to deactivate the others
createDatabaseConfigKeepOthers(configs, id, config) ==
  Append(configs,
         [id |-> id, type |-> config.type,
          connectionString |-> config.connectionString,
          isActive |-> Truthy(config.isActive)])

\* the map after createDatabaseConfig(config), which takes the id `id`
createDatabaseConfig(configs, id, config) ==
  LET newConfig == [id |-> id, type |-> config.type,
                    connectionString |-> config.connectionString,
                    isActive |-> Truthy(config.isActive)]
      existingConfigs == IF Truthy(config.isActive)
                         THEN deactivateAll(configs) ELSE configs
  IN  Append(existingConfigs, newConfig)

\* an update that forgets to deactivate the others
updateDatabaseConfigKeepOthers(configs, id, config) ==
  IF id \notin 1..Len(configs) THEN configs
  ELSE [configs EXCEPT ![id] =
          [@ EXCEPT !.isActive = IF config.isActive = "absent"
                                 THEN @ ELSE Truthy(config.isActive)]]

\* the map after updateDatabaseConfig(id, config); a field of the partial
\* config is "absent" or <<>> when the caller left it out
updateDatabaseConfig(configs, id, config) ==
  IF id \notin 1..Len(configs) THEN configs
  ELSE LET existing == configs[id]
           updated ==
             [id |-> existing.id,
              type |-> IF config.type = <<>> THEN existing.type ELSE config.type,
              connectionString |->
                IF config.connectionString = "absent"
                THEN existing.connectionString ELSE config.connectionString,
              isActive |-> IF config.isActive = "absent"
                           THEN existing.isActive ELSE Truthy(config.isActive)]
       IN  [i \in 1..Len(configs) |->
              IF i = id THEN updated
              ELSE IF Truthy(config.isActive)
                   THEN [configs[i] EXCEPT !.isActive = FALSE]
                   ELSE configs[i]]

Last(seq) == seq[Len(seq)]

\* the history after createQueryHistoryEntry(entry) at time createdAt
createQueryHistoryEntry(history, id, entry, createdAt) ==
  Append(history,
         [id |-> id, naturalQuery |-> entry.naturalQuery,
          generatedSql |-> entry.generatedSql, status |-> entry.status,
          errorMessage |-> entry.errorMessage,
          executionTime |-> entry.executionTime, rowCount |-> entry.rowCount,
          results |-> entry.results, createdAt |-> createdAt])

\* Array.prototype.sort with (a, b) => b.createdAt - a.createdAt.  The sort is
\* stable: e goes behind every entry that is not older than it.
RECURSIVE insertNewestFirst(_, _)
insertNewestFirst(sorted, e) ==
  IF sorted = <<>> THEN <<e>>
  ELSE IF Head(sorted).createdAt - e.createdAt >= 0
       THEN <<Head(sorted)>> \o insertNewestFirst(Tail(sorted), e)
       ELSE <<e>> \o sorted
RECURSIVE sortNewestFirst(_)
sortNewestFirst(history) ==
  IF history = <<>> THEN <<>>
  ELSE insertNewestFirst(sortNewestFirst(SubSeq(history, 1, Len(history) - 1)),
                         Last(history))

\* Array.prototype.slice(0, end): a negative end counts from the back
slice(seq, end) ==
  LET len == Len(seq)
      final == IF end < 0
               THEN (IF len + end > 0 THEN len + end ELSE 0)
               ELSE (IF end < len THEN end ELSE len)
  IN SubSeq(seq, 1, final)

\* getQueryHistory(limit)
getQueryHistory(history, limit) == slice(sortNewestFirst(history), limit)

\* a clear that leaves the newest entry behind
clearQueryHistoryKeepLast(history) ==
  IF history = <<>> THEN <<>> ELSE <<Last(history)>>
\* clearQueryHistory(): this.queryHistory.clear()
clearQueryHistory(history) == <<>>

\* GET /api/queries/history: limit = req.query.limit ? parseInt(..) : 50.
\* A limit is absent, a numeral, or text parseInt answers NaN for; slice
\* reads NaN as 0.
DefaultLimit == 50
parseLimit(limit) ==
  IF limit.kind = "absent" THEN DefaultLimit
  ELSE IF limit.kind = "NaN" THEN 0
  ELSE limit.n
historyRoute(history, limit) == getQueryHistory(history, parseLimit(limit))


(***************************************************************************)
(* The connection handles (SQLServerConnection / PostgreSQLConnection).    *)
(***************************************************************************)
\* a handle fresh from its constructor: the pool slot is null
newHandle(conn, owner, purpose) ==
  [owner |-> owner, purpose |-> purpose, variant |-> conn.variant,
   connectionString |-> conn.connectionString, query |-> "none",
   pool |-> FALSE, poolsCreated |-> 0, poolsEnded |-> 0, released |-> 0]
\* released counts the pool.end() / pool.close() calls the handle has issued

\* a getPool that does not look at the slot
getPoolAlwaysNew(h) == [h EXCEPT !.pool = TRUE, !.poolsCreated = @ + 1]
\* getPool up to its first await: if (!this.pool) this.pool = new Pool(...).
\* Both variants fill the slot before anything is awaited (SQLServerConnection
\* awaits pool.connect() after the assignment).
getPool(h) ==
  IF ~h.pool THEN [h EXCEPT !.pool = TRUE, !.poolsCreated = @ + 1] ELSE h

\* a manager that hands out the one handle it made first
createdHandleMemoized(hs) == 1
\* createConnection: return new XConnection(connectionString) -- an object
\* no one else holds, here the next free place among the handles
createdHandle(hs) == Len(hs) + 1
\* the handles once the handle h sits at place idx
installHandle(hs, idx, h) == IF idx > Len(hs) THEN Append(hs, h) ELSE hs

\* executeQuery(query) up to its first I/O: the pool slot is filled
executeQueryStart(h, query) == [getPool(h) EXCEPT !.query = query]

\* close() up to its await: if (this.pool) await this.pool.end()
closeStart(h) == IF h.pool THEN [h EXCEPT !.released = @ + 1] ELSE h

\* a testConnection without its try/catch: a failure rejects the call
testConnectionRethrows(io) ==
  IF io = "ok" THEN [pc |-> "resolved", value |-> "true"]
  ELSE [pc |-> "rejected", value |-> io]
\* testConnection(): try { getPool; query SELECT 1; return true }
\* catch { return false }
testConnectionResult(io) ==
  IF io = "ok" THEN [pc |-> "resolved", value |-> "true"]
  ELSE [pc |-> "resolved", value |-> "false"]
\* executeQuery(): the result, or the Error its catch throws
executeQueryResult(io) ==
  IF io = "ok" THEN [pc |-> "resolved", value |-> "recordset"]
  ELSE [pc |-> "rejected", value |-> "Query execution failed"]

\* close() once pool.end() / pool.close() has resolved: this.pool = null
closeResolved(h) ==
  IF h.pool THEN [h EXCEPT !.pool = FALSE, !.poolsEnded = @ + 1] ELSE h

(***************************************************************************)
(* The request schema (shared/schema.ts).                                  *)
(***************************************************************************)
MinQueryLength == 1
MaxQueryLength == 500

\* a schema without its upper bound: z.string().min(1)
parseOkNoMax(query) ==
  /\ query.type = "string"
  /\ query.length >= MinQueryLength
\* naturalLanguageQuerySchema.parse succeeds: z.string().min(1).max(500)
parseOk(query) ==
  /\ query.type = "string"
  /\ query.length >= MinQueryLength
  /\ query.length <= MaxQueryLength

(***************************************************************************)
(* State.                                                                  *)
(***************************************************************************)
VARIABLES
  databaseConfigs,   \* MemStorage.databaseConfigs, in insertion (= id) order
  currentConfigId,   \* MemStorage.currentConfigId
  queryHistory,      \* MemStorage.queryHistory, in insertion order
  currentHistoryId,  \* MemStorage.currentHistoryId
  now,               \* Date.now()
  handles,           \* every connection handle the factory has constructed
  req,               \* the execute requests: position, locals, response
  sqlIn,             \* validator harness: the input
  verdict,           \* validator harness: the resolved result
  listed,            \* the body of the last answer of GET /api/queries/history
  calls,             \* handle harness: the calls made on the handles
  tests,             \* the connection-test requests: position, locals, response
  connections        \* DatabaseManager.connections: the handles the manager keeps

vars == <<databaseConfigs, currentConfigId, queryHistory, currentHistoryId,
          now, handles, req, sqlIn, verdict, listed, calls, tests, connections>>
storeVars == <<databaseConfigs, currentConfigId>>
harnessVars == <<sqlIn, verdict, listed, calls, tests, connections>>

\* the execute requests of a run: one request against every operation of the
\* store and the clock, or two requests against each other
SingleRequest == {1}
ConcurrentRequests == {1, 2}
\* the connection-test request of a run (requests are numbered across routes)
TestRequests == {3}

NoSql == [type |-> "undefined", chars |-> <<>>]
NoQuery == [type |-> "undefined", length |-> 0]
NoResults == [isNull |-> TRUE, rows |-> 0]
NoResponse ==
  [status |-> 0, message |-> "none", generatedSql |-> NoSql, hasSql |-> FALSE,
   resultStatus |-> "none", rowCount |-> 0, executionTime |-> 0,
   results |-> NoResults]
NoError == "none"

\* what the model lets the outside world send or answer
QueryInputs ==
  {NoQuery, [type |-> "number", length |-> 0]}
    \cup {[type |-> "string", length |-> n] :
            n \in {MinQueryLength - 1, MaxQueryLength, MaxQueryLength + 1}}
ConfigTypes == {postgresql, PostgreSQL, sqlserver, mysql}
ConnectionStrings == {"cs1", "cs2"}
\* configurations the requests run against: every type tag, activated or not
RouteCreateInputs ==
  [type : ConfigTypes, connectionString : {"cs2"}, isActive : {"true", "false"}]
RouteUpdateInputs ==
  [type : {<<>>}, connectionString : {"absent"}, isActive : {"true", "false"}]
\* every insert and every partial update the store is exercised with
StoreCreateInputs ==
  [type : ConfigTypes, connectionString : ConnectionStrings,
   isActive : {"true", "false", "absent"}]
StoreUpdateInputs ==
  [type : ConfigTypes \cup {<<>>},
   connectionString : ConnectionStrings \cup {"absent"},
   isActive : {"true", "false", "absent"}]
\* what a backend says when a query fails, and when the release of a pool fails
BackendErrors == {"timeout", "relation does not exist"}
CloseError == "close failed"
\* how the I/O of a call on a handle ends: the pool connects or not, the
\* query answers or not
CallOutcomes == {"ok", "getPool failed", "query failed"}
GeneratedSqls ==
  {JsString(<<"S", "E", "L", "E", "C", "T", " ", "1">>),
   JsString(<<"D", "R", "O", "P", " ", "T">>)}

InitRequest ==
  [pc |-> "idle", body |-> NoQuery, query |-> NoQuery, dbConfig |-> NoConfig,
   startTime |-> 0, tableSchema |-> "", sql |-> NoSql, schemaConn |-> 0,
   execConn |-> 0, queryStart |-> 0, queryResult |-> NoResults, dbError |-> NoError,
   response |-> NoResponse, responses |-> 0,
   factoryCalls |-> 0, generatorCalls |-> 0, genSchema |-> "unset",
   written |-> <<>>, executed |-> <<>>]
\* body is req.body.query as received and dbError the message of the error
\* caught at line 118; responses (the responses sent), factoryCalls,
\* generatorCalls, genSchema (the schema context handed to the generator),
\* written (the entries the request has saved) and executed (the SQL it has
\* passed to executeQuery at line 94) record what the request has done; the
\* handler reads none of them

\* POST /api/database/test before the request arrives
NoTestBody == [type |-> [type |-> "undefined", chars |-> <<>>],
               connectionString |-> ""]
NoTestResponse == [status |-> 0, success |-> "absent", message |-> "none"]
InitTest ==
  [pc |-> "idle", body |-> NoTestBody, conn |-> 0, isConnected |-> "unset",
   response |-> NoTestResponse, responses |-> 0]

MainInit(requests) ==
  /\ databaseConfigs = <<DefaultConfig>>
  /\ currentConfigId = 2
  /\ queryHistory = <<>>
  /\ currentHistoryId = 1
  /\ now = 0
  /\ handles = <<>>
  /\ req = [r \in requests |-> InitRequest]
  /\ sqlIn = NoSql
  /\ verdict = [done |-> FALSE, value |-> FALSE, raised |-> FALSE]
  /\ listed = <<>>
  /\ calls = <<>>
  /\ tests = [t \in TestRequests |-> InitTest]
  /\ connections = {}

Init == MainInit(SingleRequest)
ConcurrentInit == MainInit(ConcurrentRequests)

(***************************************************************************)
(* POST /api/queries/execute, segment by segment.                          *)
(***************************************************************************)
\* res.status(status).json({message}) and the handler is over
errorResponse(status, message) ==
  [NoResponse EXCEPT !.status = status, !.message = message]

\* an error branch that records a fixed text in place of the error's message
errorEntryGeneric(q, errorMessage) ==
  [naturalQuery |-> q.query, generatedSql |-> q.sql, status |-> "error",
   errorMessage |-> "Database execution failed",
   executionTime |-> now - q.startTime, rowCount |-> 0, results |-> NoResults]
\* the QueryAttempt of an error branch
errorEntry(q, errorMessage) ==
  [naturalQuery |-> q.query, generatedSql |-> q.sql, status |-> "error",
   errorMessage |-> errorMessage, executionTime |-> now - q.startTime,
   rowCount |-> 0, results |-> NoResults]

\* lines 31-44 (or the catch of line 64) followed by the call of line 70: the
\* request q, past its schema step, calls the generator
callGenerator(q) ==
  [q EXCEPT !.pc = "generating", !.generatorCalls = @ + 1,
     !.genSchema = q.tableSchema]

\* res.json(response) / res.status(..).json(..): the response leaves and the
\* handler is over
respond(q, response) ==
  [q EXCEPT !.pc = "done", !.response = response, !.responses = @ + 1]

\* the Error executeQuery throws from its catch (openai.ts 175-178, 238-241):
\* the backend's message behind a fixed prefix (the elapsed time is left out)
executeQueryError(cause) == "Query execution failed: " \o cause
\* the message of the 500 of lines 132-135
failedMessage(errorMessage) == "Database query failed: " \o errorMessage
\* lines 118-135: the body of catch (dbError), for the request q
catchDbError(r, q, errorMessage) ==
  /\ queryHistory' = createQueryHistoryEntry(queryHistory, currentHistoryId,
        errorEntry(q, errorMessage), now)
  /\ currentHistoryId' = currentHistoryId + 1
  /\ req' = [req EXCEPT ![r] =
               respond([q EXCEPT !.dbError = errorMessage,
                          !.written = Append(@, Last(queryHistory'))],
                       [errorResponse(500, failedMessage(errorMessage))
                          EXCEPT !.generatedSql = q.sql, !.hasSql = TRUE])]

\* a handler that loads the active configuration again at line 91
loadedConfigReread(q, configs) == getActiveDatabaseConfig(configs)
\* the const dbConfig of line 21, as lines 33 and 91 read it.  It refers to
\* the object the store held when it was loaded: createDatabaseConfig and
\* updateDatabaseConfig write isActive of such an object in place but never
\* its type or connectionString (an update stores a new object)
loadedConfig(q, configs) == q.dbConfig

\* a handler that forgot the check of line 22
configMissingNever(dbConfig) == FALSE
\* line 22: if (!dbConfig)
configMissing(dbConfig) == dbConfig = NoConfig

\* lines 17-44: parse, load the active configuration, open the schema
\* connection and issue the introspection query
Receive(r) ==
  \E body \in QueryInputs :
    /\ req[r].pc = "idle"
    /\ UNCHANGED <<storeVars, queryHistory, currentHistoryId, now, harnessVars>>
    /\ LET received == [req[r] EXCEPT !.body = body] IN
       IF ~parseOk(body)
       THEN /\ req' = [req EXCEPT ![r] =
                         respond(received,
                                 errorResponse(400, "Invalid request data"))]
            /\ UNCHANGED handles
       ELSE LET dbConfig == getActiveDatabaseConfig(databaseConfigs)
                q == [received EXCEPT !.query = body, !.dbConfig = dbConfig]
            IN
            IF configMissing(dbConfig)
            THEN /\ req' = [req EXCEPT ![r] =
                              respond(q, errorResponse(400,
                                 "No active database configuration found"))]
                 /\ UNCHANGED handles
            ELSE LET conn == createConnection(dbConfig.type, dbConfig.connectionString)
                     started == [q EXCEPT !.startTime = now, !.factoryCalls = @ + 1]
                 IN
                 IF ~conn.ok
                 THEN /\ req' = [req EXCEPT ![r] = callGenerator(started)]
                      /\ UNCHANGED handles
                 ELSE LET connection == createdHandle(handles) IN
                      /\ handles' =
                           [installHandle(handles, connection,
                                          newHandle(conn, r, "schema"))
                              EXCEPT ![connection] =
                                executeQueryStart(@, schemaQueryFor(dbConfig.type))]
                      /\ req' = [req EXCEPT ![r] =
                                   [started EXCEPT !.pc = "schemaQuery",
                                      !.schemaConn = connection]]

\* lines 44-63: the introspection query resolves; fold the rows, call close()
SchemaQueryOk(r) ==
  \E nonEmpty \in BOOLEAN :
    /\ req[r].pc = "schemaQuery"
    /\ req' = [req EXCEPT ![r] =
                 [@ EXCEPT !.pc = "schemaClose",
                    !.tableSchema = IF nonEmpty THEN "tables" ELSE ""]]
    /\ handles' = [handles EXCEPT ![req[r].schemaConn] = closeStart(@)]
    /\ UNCHANGED <<storeVars, queryHistory, currentHistoryId, now, harnessVars>>

\* a schema step without its try/catch: the failure reaches the outer catch
SchemaQueryFailAborts(r) ==
  /\ req[r].pc = "schemaQuery"
  /\ req' = [req EXCEPT ![r] =
               respond(@, errorResponse(500, executeQueryError("timeout")))]
  /\ UNCHANGED <<storeVars, queryHistory, currentHistoryId, now, handles,
                 harnessVars>>

\* lines 44-62, 64-70: the handle fails to connect, the introspection query
\* rejects or the fold of lines 45-58 throws, all before the assignment of
\* line 59; the catch logs, then generate
SchemaQueryFail(r) ==
  /\ req[r].pc = "schemaQuery"
  /\ req' = [req EXCEPT ![r] = callGenerator(@)]
  /\ UNCHANGED <<storeVars, queryHistory, currentHistoryId, now, handles,
                 harnessVars>>

\* line 63 resolves (this.pool = null) or rejects (caught at line 64); line 70
SchemaCloseDone(r) ==
  \E ok \in BOOLEAN :
    /\ req[r].pc = "schemaClose"
    /\ handles' = IF ok
                  THEN [handles EXCEPT ![req[r].schemaConn] = closeResolved(@)]
                  ELSE handles
    /\ req' = [req EXCEPT ![r] = callGenerator(@)]
    /\ UNCHANGED <<storeVars, queryHistory, currentHistoryId, now, harnessVars>>

\* line 70 rejects: the outer catch (lines 138-145) answers 500
GenerateFail(r) ==
  /\ req[r].pc = "generating"
  /\ req' = [req EXCEPT ![r] =
               respond(@, errorResponse(500, "Failed to generate SQL"))]
  /\ UNCHANGED <<storeVars, queryHistory, currentHistoryId, now, handles,
                 harnessVars>>

\* lines 70-94 (and 118-135): the generator answers; validate; open the
\* execution connection and issue the generated SQL
GenerateOk(r) ==
  \E sql \in GeneratedSqls :
    /\ req[r].pc = "generating"
    /\ UNCHANGED <<storeVars, now, harnessVars>>
    /\ LET q == [req[r] EXCEPT !.sql = sql] IN
       IF securityRejected(sql)
       THEN /\ queryHistory' = createQueryHistoryEntry(queryHistory, currentHistoryId,
                  errorEntry(q, "Generated query failed security validation"), now)
            /\ currentHistoryId' = currentHistoryId + 1
            /\ req' = [req EXCEPT ![r] =
                         respond([q EXCEPT !.written = Append(@, Last(queryHistory'))],
                                 errorResponse(400,
                                    "Generated query failed security validation"))]
            /\ UNCHANGED handles
       ELSE LET dbConfig == loadedConfig(q, databaseConfigs)
                conn == createConnection(dbConfig.type, dbConfig.connectionString)
                called == [q EXCEPT !.factoryCalls = @ + 1]
            IN
            IF ~conn.ok
            THEN /\ catchDbError(r, called, conn.variant)
                 /\ UNCHANGED handles
            ELSE LET connection == createdHandle(handles) IN
                 /\ handles' =
                      [installHandle(handles, connection,
                                     newHandle(conn, r, "execute"))
                         EXCEPT ![connection] = executeQueryStart(@, "generated")]
                 /\ req' = [req EXCEPT ![r] =
                              [called EXCEPT !.pc = "executing",
                                 !.execConn = connection,
                                 !.queryStart = now,
                                 !.executed = Append(@, sql)]]
                 /\ UNCHANGED <<queryHistory, currentHistoryId>>

\* lines 94-115: the generated SQL ran; save the success entry, call close()
ExecuteOk(r) ==
  \E n \in 0..MaxRows :
    /\ req[r].pc = "executing"
    /\ queryHistory' = createQueryHistoryEntry(queryHistory, currentHistoryId,
          [naturalQuery |-> req[r].query, generatedSql |-> req[r].sql,
           status |-> "success", errorMessage |-> "null",
           executionTime |-> now - req[r].queryStart, rowCount |-> n,
           results |-> [isNull |-> FALSE, rows |-> n]], now)
    /\ currentHistoryId' = currentHistoryId + 1
    /\ req' = [req EXCEPT ![r] =
                 [@ EXCEPT !.pc = "executeClose",
                    !.queryResult = [isNull |-> FALSE, rows |-> n],
                    !.written = Append(@, Last(queryHistory')),
                    !.response =
                      [NoResponse EXCEPT !.generatedSql = req[r].sql,
                         !.hasSql = TRUE, !.resultStatus = "success",
                         !.rowCount = n,
                         !.executionTime = now - req[r].queryStart,
                         !.results = [isNull |-> FALSE, rows |-> n]]]]
    /\ handles' = [handles EXCEPT ![req[r].execConn] = closeStart(@)]
    /\ UNCHANGED <<storeVars, now, harnessVars>>

\* a catch that issues the generated SQL a second time
ExecuteFailRetry(r) ==
  /\ req[r].pc = "executing"
  /\ Len(req[r].executed) < 2
  /\ req' = [req EXCEPT ![r] = [@ EXCEPT !.executed = Append(@, req[r].sql)]]
  /\ UNCHANGED <<storeVars, queryHistory, currentHistoryId, now, handles,
                 harnessVars>>

\* lines 94, 118-135: the handle fails to connect or the generated SQL fails;
\* executeQuery throws, the catch saves the error entry and answers 500
ExecuteFail(r) ==
  \E cause \in BackendErrors :
    /\ req[r].pc = "executing"
    /\ catchDbError(r, req[r], executeQueryError(cause))
    /\ UNCHANGED <<storeVars, now, handles, harnessVars>>

\* lines 115-116: close() resolves and the response built at line 96 is sent
ExecuteCloseOk(r) ==
  /\ req[r].pc = "executeClose"
  /\ handles' = [handles EXCEPT ![req[r].execConn] = closeResolved(@)]
  /\ req' = [req EXCEPT ![r] =
               respond(@, [@.response EXCEPT !.status = 200, !.message = "ok"])]
  /\ UNCHANGED <<storeVars, queryHistory, currentHistoryId, now, harnessVars>>

\* lines 115, 118-135: close() rejects inside the try; the catch saves an
\* error entry and answers 500
ExecuteCloseFail(r) ==
  /\ req[r].pc = "executeClose"
  /\ catchDbError(r, req[r], CloseError)
  /\ UNCHANGED <<storeVars, now, handles, harnessVars>>

(***************************************************************************)
(* POST /api/database/test, segment by segment.                            *)
(***************************************************************************)
\* JavaScript ToBoolean of req.body.type: undefined and '' are falsy; the
\* number of the model is a non-zero one
typeGiven(type) ==
  /\ type.type # "undefined"
  /\ type.type = "string" => type.chars # <<>>

\* res.status(status).json({success, message}) and the handler is over
answerTest(q, status, success, message) ==
  [q EXCEPT !.pc = "done", !.responses = @ + 1,
            !.response = [status |-> status, success |-> success,
                          message |-> message]]

\* lines 200-208: the checks, the factory call and testConnection() up to the
\* first I/O of its getPool / SELECT 1.  A type that is no string has no
\* toLowerCase: the TypeError, like the Error of the factory, lands in the
\* catch of line 216.
TestReceive(t, bodies) ==
  /\ tests[t].pc = "idle"
  /\ \E body \in bodies :
       LET type == body.type
           connectionString == body.connectionString
           received == [tests[t] EXCEPT !.body = body]
       IN
       IF ~typeGiven(type) \/ connectionString = ""
       THEN /\ tests' = [tests EXCEPT ![t] =
                  answerTest(received, 400, "absent",
                             "Database type and connection string are required")]
            /\ UNCHANGED handles
       ELSE IF type.type # "string"
       THEN /\ tests' = [tests EXCEPT ![t] =
                  answerTest(received, 500, "false",
                             "type.toLowerCase is not a function")]
            /\ UNCHANGED handles
       ELSE LET conn == createConnection(type.chars, connectionString) IN
            IF ~conn.ok
            THEN /\ tests' = [tests EXCEPT ![t] =
                       answerTest(received, 500, "false", conn.variant)]
                 /\ UNCHANGED handles
            ELSE LET connection == createdHandle(handles) IN
                 /\ handles' =
                      [installHandle(handles, connection,
                                     newHandle(conn, t, "test"))
                         EXCEPT ![connection] = getPool(@)]
                 /\ tests' = [tests EXCEPT ![t] =
                       [received EXCEPT !.pc = "testing", !.conn = connection]]
  /\ UNCHANGED <<storeVars, queryHistory, currentHistoryId, now, req, sqlIn,
                 verdict, listed, calls, connections>>

\* lines 208-209: testConnection() settles; connection.close() up to its
\* pool.end() / pool.close()
TestAnswered(t) ==
  /\ tests[t].pc = "testing"
  /\ \E io \in CallOutcomes :
       LET result == testConnectionResult(io) IN
       IF result.pc = "rejected"
       THEN /\ tests' = [tests EXCEPT ![t] =
                  answerTest(@, 500, "false", result.value)]
            /\ UNCHANGED handles
       ELSE /\ tests' = [tests EXCEPT ![t] =
                  [@ EXCEPT !.pc = "closing", !.isConnected = result.value]]
            /\ handles' = [handles EXCEPT ![tests[t].conn] = closeStart(@)]
  /\ UNCHANGED <<storeVars, queryHistory, currentHistoryId, now, req, sqlIn,
                 verdict, listed, calls, connections>>

\* lines 209-219: close() settles and the answer is sent
testClosed(t, ok) ==
  IF ok
  THEN /\ handles' = [handles EXCEPT ![tests[t].conn] = closeResolved(@)]
       /\ tests' = [tests EXCEPT ![t] =
             IF tests[t].isConnected = "true"
             THEN answerTest(@, 200, "true", "Database connection successful")
             ELSE answerTest(@, 400, "false", "Database connection failed")]
  ELSE /\ tests' = [tests EXCEPT ![t] = answerTest(@, 500, "false", CloseError)]
       /\ UNCHANGED handles

\* a test route that saves the configuration it has tested
TestCloseDoneSaves(t) ==
  /\ tests[t].pc = "closing"
  /\ \E ok \in BOOLEAN : testClosed(t, ok)
  /\ databaseConfigs' =
       createDatabaseConfig(databaseConfigs, currentConfigId,
                            [type |-> tests[t].body.type.chars,
                             connectionString |-> tests[t].body.connectionString,
                             isActive |-> "true"])
  /\ currentConfigId' = currentConfigId + 1
  /\ UNCHANGED <<queryHistory, currentHistoryId, now, req, sqlIn,
                 verdict, listed, calls, connections>>
TestCloseDone(t) ==
  /\ tests[t].pc = "closing"
  /\ \E ok \in BOOLEAN : testClosed(t, ok)
  /\ UNCHANGED <<storeVars, queryHistory, currentHistoryId, now, req, sqlIn,
                 verdict, listed, calls, connections>>

\* one segment of one connection-test request
TestHandler(bodies) ==
  \E t \in DOMAIN tests :
    \/ TestReceive(t, bodies)
    \/ TestAnswered(t)
    \/ TestCloseDone(t)

(***************************************************************************)
(* The other operations on the store, and the clock.                       *)
(***************************************************************************)
\* POST /api/database/configs: storage.createDatabaseConfig(configData)
CreateConfig(inputs, cap) ==
  \E config \in inputs :
    /\ Len(databaseConfigs) < cap
    /\ databaseConfigs' = createDatabaseConfig(databaseConfigs, currentConfigId,
                                               config)
    /\ currentConfigId' = currentConfigId + 1
    /\ UNCHANGED <<queryHistory, currentHistoryId, now, handles, req, harnessVars>>

\* storage.updateDatabaseConfig(id, config)
UpdateConfig(inputs, cap) ==
  \E id \in 1..cap, config \in inputs :
    /\ databaseConfigs' = updateDatabaseConfig(databaseConfigs, id, config)
    /\ UNCHANGED <<currentConfigId, queryHistory, currentHistoryId, now, handles,
                   req, harnessVars>>

\* DELETE /api/queries/history: storage.clearQueryHistory()
ClearHistory ==
  /\ queryHistory # <<>>
  /\ queryHistory' = clearQueryHistory(queryHistory)
  /\ UNCHANGED <<storeVars, currentHistoryId, now, handles, req, harnessVars>>

\* time passes
Tick ==
  /\ now < MaxClock
  /\ now' = now + 1
  /\ UNCHANGED <<storeVars, queryHistory, currentHistoryId, handles, req,
                 harnessVars>>

\* one segment of one execute request
Handler ==
  \E r \in DOMAIN req :
    \/ Receive(r)
    \/ SchemaQueryOk(r)
    \/ SchemaQueryFail(r)
    \/ SchemaCloseDone(r)
    \/ GenerateFail(r)
    \/ GenerateOk(r)
    \/ ExecuteOk(r)
    \/ ExecuteFail(r)
    \/ ExecuteCloseOk(r)
    \/ ExecuteCloseFail(r)

Next ==
  \/ Handler
  \/ CreateConfig(RouteCreateInputs, MaxSaved)
  \/ UpdateConfig(RouteUpdateInputs, MaxSaved)
  \/ ClearHistory
  \/ Tick

\* one request, every store operation, the clock
Spec == Init /\ [][Next]_vars

\* every await of a request the handler has started is eventually answered
Answered(r) ==
  \/ SchemaQueryOk(r)
  \/ SchemaQueryFail(r)
  \/ SchemaCloseDone(r)
  \/ GenerateFail(r)
  \/ GenerateOk(r)
  \/ ExecuteOk(r)
  \/ ExecuteFail(r)
  \/ ExecuteCloseOk(r)
  \/ ExecuteCloseFail(r)
\* one request against the configurations that get created, with that promise
LiveNext ==
  \/ Handler
  \/ CreateConfig(RouteCreateInputs, MaxSaved)
LiveSpec ==
  Init /\ [][LiveNext]_vars /\ \A r \in SingleRequest : WF_vars(Answered(r))

\* one request while configurations are created, activated and deactivated
SnapshotNext ==
  \/ Handler
  \/ CreateConfig(RouteCreateInputs, MaxSaved)
  \/ UpdateConfig(RouteUpdateInputs, MaxSaved)
SnapshotSpec == Init /\ [][SnapshotNext]_vars

\* two requests against the default configuration
ConcurrentNext ==
  \/ Handler
  \/ ClearHistory
ConcurrentSpec == ConcurrentInit /\ [][ConcurrentNext]_vars


(***************************************************************************)
(* The store on its own: every insert and every partial update.            *)
(***************************************************************************)
StoreNext ==
  \/ CreateConfig(StoreCreateInputs, MaxConfigs)
  \/ UpdateConfig(StoreUpdateInputs, MaxConfigs)
StoreSpec == Init /\ [][StoreNext]_vars

(***************************************************************************)
(* The validator on its own: validateSQLQuery applied to an input built    *)
(* from up to MaxFrags fragments.                                          *)
(***************************************************************************)
Fragments ==
  {SELECT, <<"s", "e", "l", "e", "c", "t">>, <<" ">>, <<"\n">>, <<"x">>,
   DROP, <<"D", "R">>, <<"O", "P">>, INSERT, UPDATE, DELETE, CREATE, ALTER,
   TRUNCATE, EXEC, SP_, <<"x", "p", "_">>}

RECURSIVE Concat(_)
Concat(frags) == IF frags = <<>> THEN <<>> ELSE Head(frags) \o Concat(Tail(frags))

ValidatorInputs ==
  {JsNumber, [type |-> "undefined", chars |-> <<>>]} \cup
  {JsString(Concat(frags)) :
     frags \in UNION {[1..n -> Fragments] : n \in 0..MaxFrags}}

ValidatorInit ==
  /\ databaseConfigs = <<DefaultConfig>>
  /\ currentConfigId = 2
  /\ queryHistory = <<>>
  /\ currentHistoryId = 1
  /\ now = 0
  /\ handles = <<>>
  /\ req = [r \in SingleRequest |-> InitRequest]
  /\ sqlIn \in ValidatorInputs
  /\ verdict = [done |-> FALSE, value |-> FALSE, raised |-> FALSE]
  /\ listed = <<>>
  /\ calls = <<>>
  /\ tests = [t \in TestRequests |-> InitTest]
  /\ connections = {}

\* await validateSQLQuery(sqlIn)
Validate ==
  /\ ~verdict.done
  /\ verdict' = [done |-> TRUE, value |-> validateSQLQuerySettled(sqlIn).value,
                  raised |-> validateSQLQuerySettled(sqlIn).raised]
  /\ UNCHANGED <<databaseConfigs, currentConfigId, queryHistory,
                 currentHistoryId, now, handles, req, sqlIn, listed, calls, tests, connections>>

ValidatorSpec == ValidatorInit /\ [][Validate]_vars

(***************************************************************************)
(* The history on its own: entries saved at any tick, listed with any      *)
(* limit, cleared.                                                         *)
(***************************************************************************)
HistoryEntries ==
  {[naturalQuery |-> [type |-> "string", length |-> MaxQueryLength],
    generatedSql |-> sql, status |-> "success", errorMessage |-> "null",
    executionTime |-> 0, rowCount |-> 0,
    results |-> [isNull |-> FALSE, rows |-> 0]] : sql \in GeneratedSqls}
LimitInputs ==
  {[kind |-> "absent", n |-> 0], [kind |-> "NaN", n |-> 0],
   [kind |-> "int", n |-> 1], [kind |-> "int", n |-> -1]}

\* storage.createQueryHistoryEntry(entry)
SaveEntry ==
  \E entry \in HistoryEntries :
    /\ currentHistoryId <= MaxHistory
    /\ queryHistory' = createQueryHistoryEntry(queryHistory, currentHistoryId,
                                               entry, now)
    /\ currentHistoryId' = currentHistoryId + 1
    /\ UNCHANGED <<storeVars, now, handles, req, harnessVars>>

\* GET /api/queries/history
ListHistory ==
  \E limit \in LimitInputs :
    /\ listed' = historyRoute(queryHistory, limit)
    /\ UNCHANGED <<storeVars, queryHistory, currentHistoryId, now, handles, req,
                   sqlIn, verdict, calls, tests, connections>>

HistoryNext ==
  \/ SaveEntry
  \/ ListHistory
  \/ ClearHistory
  \/ Tick
HistorySpec == Init /\ [][HistoryNext]_vars

(***************************************************************************)
(* A connection handle on its own: executeQuery, testConnection and        *)
(* close() called on it in any order, a call starting before the calls     *)
(* before it have settled.                                                 *)
(***************************************************************************)
HandleTypes == {postgresql, sqlserver}
QueryCalls == {"executeQuery", "testConnection"}

HandleInit ==
  /\ databaseConfigs = <<DefaultConfig>>
  /\ currentConfigId = 2
  /\ queryHistory = <<>>
  /\ currentHistoryId = 1
  /\ now = 0
  /\ handles \in {<<newHandle(createConnection(type, "cs1"), 0, "direct")>> :
                    type \in HandleTypes}
  /\ req = [r \in SingleRequest |-> InitRequest]
  /\ sqlIn = NoSql
  /\ verdict = [done |-> FALSE, value |-> FALSE, raised |-> FALSE]
  /\ listed = <<>>
  /\ calls = <<>>
  /\ tests = [t \in TestRequests |-> InitTest]
  /\ connections = {}

\* executeQuery(query) / testConnection() up to the first await: getPool has
\* filled the slot and the call holds the pool it was given
StartCall(h) ==
  \E kind \in QueryCalls :
    /\ Len(calls) < MaxCalls
    /\ handles' = [handles EXCEPT ![h] = getPool(@)]
    /\ calls' = Append(calls, [handle |-> h, kind |-> kind, pc |-> "pending",
                               pool |-> handles'[h].poolsCreated,
                               io |-> "none", value |-> "none"])
    /\ UNCHANGED <<storeVars, queryHistory, currentHistoryId, now, req, sqlIn,
                   verdict, listed, tests,
                   connections>>

\* the awaits of a pending call settle: getPool (the construction of the
\* pool, the connect) or the query fails, or the query answers; executeQuery
\* returns or throws, testConnection answers; the slot is not touched
CallDone(c) ==
  \E io \in CallOutcomes :
    /\ calls[c].kind \in QueryCalls
    /\ calls[c].pc = "pending"
    /\ LET result == IF calls[c].kind = "testConnection"
                     THEN testConnectionResult(io)
                     ELSE executeQueryResult(io)
       IN calls' = [calls EXCEPT ![c] = [@ EXCEPT !.pc = result.pc, !.io = io,
                                           !.value = result.value]]
    /\ UNCHANGED <<storeVars, queryHistory, currentHistoryId, now, handles, req,
                   sqlIn, verdict, listed, tests,
                   connections>>

\* close() up to its await: if (this.pool) await this.pool.end()
StartClose(h) ==
  /\ Len(calls) < MaxCalls
  /\ calls' = Append(calls,
        [handle |-> h, kind |-> "close",
         pc |-> IF handles[h].pool THEN "pending" ELSE "returned",
         pool |-> IF handles[h].pool THEN handles[h].poolsCreated ELSE 0,
         io |-> "none", value |-> "none"])
  /\ handles' = [handles EXCEPT ![h] = closeStart(@)]
  /\ UNCHANGED <<storeVars, queryHistory, currentHistoryId, now, req, sqlIn,
                 verdict, listed, tests,
                   connections>>

\* pool.end() / pool.close() resolves (this.pool = null) or rejects
CloseDone(c) ==
  \E ok \in BOOLEAN :
    /\ calls[c].kind = "close"
    /\ calls[c].pc = "pending"
    /\ calls' = [calls EXCEPT ![c].pc = IF ok THEN "resolved" ELSE "rejected"]
    /\ handles' = IF ok
                  THEN [handles EXCEPT ![calls[c].handle] = closeResolved(@)]
                  ELSE handles
    /\ UNCHANGED <<storeVars, queryHistory, currentHistoryId, now, req, sqlIn,
                   verdict, listed, tests,
                   connections>>

HandleNext ==
  \/ \E h \in 1..Len(handles) : StartCall(h)
  \/ \E c \in 1..Len(calls) : CallDone(c)
  \/ \E h \in 1..Len(handles) : StartClose(h)
  \/ \E c \in 1..Len(calls) : CloseDone(c)
HandleSpec == HandleInit /\ [][HandleNext]_vars

(***************************************************************************)
(* The connection-test route on its own, for every letter casing of the    *)
(* two supported type tags and for tags the factory does not know.         *)
(***************************************************************************)
\* every way of writing the letters of tag in upper or lower case
RECURSIVE Casings(_)
Casings(tag) ==
  IF tag = <<>> THEN {<<>>}
  ELSE {<<c>> \o rest : c \in {Head(tag), toUpperCase(<<Head(tag)>>)[1]},
                        rest \in Casings(Tail(tag))}
OtherTags ==
  {mysql, <<"p", "o", "s", "t", "g", "r", "e", "s">>,
   <<"m", "s", "s", "q", "l">>, sqlserver \o <<" ">>, <<" ">> \o postgresql,
   <<"s", "q", "l", " ", "s", "e", "r", "v", "e", "r">>, <<>>}
TestTypes ==
  {JsNumber, [type |-> "undefined", chars |-> <<>>]}
    \cup {JsString(s) : s \in Casings(sqlserver) \cup Casings(postgresql)
                                \cup OtherTags}
TestBodies == [type : TestTypes, connectionString : {"cs1"}]
TestNext == TestHandler(TestBodies)
TestSpec == Init /\ [][TestNext]_vars

(***************************************************************************)
(* An execute request and a connection-test request, interleaved.          *)
(***************************************************************************)
MixedTestBodies ==
  [type : {JsString(sqlserver), JsString(PostgreSQL), JsString(mysql), JsNumber},
   connectionString : {"", "cs2"}]
MixedNext ==
  \/ Handler
  \/ TestHandler(MixedTestBodies)
MixedSpec == Init /\ [][MixedNext]_vars


(***************************************************************************)
(* Properties.                                                             *)
(***************************************************************************)
SecurityMessage == "Generated query failed security validation"

\* the request has a generated SQL text that the validator judges unsafe
UnsafeGenerated(r) == req[r].sql # NoSql /\ ~validateSQLQuery(req[r].sql)

\* the handles the factory has constructed for request r
HandlesOf(r) == {h \in 1..Len(handles) : handles[h].owner = r}

\* the ids of the active configurations
ActiveIds == {i \in 1..Len(databaseConfigs) : databaseConfigs[i].isActive}

\* C1: generated SQL that the validator judges unsafe is never executed: the
\* request takes the rejection branch and no executeQuery call carries that
\* SQL to a backend.
C1_UnsafeSqlNeverExecuted ==
  \A r \in DOMAIN req :
    UnsafeGenerated(r) =>
      /\ req[r].executed = <<>>
      /\ req[r].execConn = 0
      /\ req[r].response.message = SecurityMessage

\* C2: when the generated SQL is unsafe the handler appends exactly one
\* QueryAttempt, with status error, the security-validation message,
\* rowCount 0 and results null, and answers 400 with the rejection message.
C2_UnsafeSqlRecordedAndRejected ==
  \A r \in DOMAIN req :
    (UnsafeGenerated(r) /\ req[r].pc = "done") =>
      /\ Len(req[r].written) = 1
      /\ req[r].written[1].status = "error"
      /\ req[r].written[1].errorMessage = SecurityMessage
      /\ req[r].written[1].rowCount = 0
      /\ req[r].written[1].results = NoResults
      /\ req[r].response.status = 400
      /\ req[r].response.message = SecurityMessage

\* C3: a request whose generated SQL the validator rejects invokes the
\* connection factory zero times and opens no connection or pool.
C3_RejectedRequestOpensNoConnection ==
  \A r \in DOMAIN req :
    UnsafeGenerated(r) =>
      /\ req[r].factoryCalls = 0
      /\ HandlesOf(r) = {}

\* C4: for every string sql the validator answers true exactly when the
\* upper-cased, trimmed sql starts with SELECT and contains none of the
\* denylisted substrings anywhere.
DenylistedSubstrings ==
  {INSERT, UPDATE, DELETE, DROP, CREATE, ALTER, TRUNCATE, EXEC, EXECUTE, SP_, XP_}
Occurs(s, k) ==
  \E i \in 1..Len(s) :
    i + Len(k) - 1 <= Len(s) /\ SubSeq(s, i, i + Len(k) - 1) = k
C4_ValidatorCharacterisation ==
  (verdict.done /\ sqlIn.type = "string") =>
    LET u == trim(toUpperCase(sqlIn.chars)) IN
    verdict.value <=>
      /\ Len(u) >= Len(SELECT)
      /\ SubSeq(u, 1, Len(SELECT)) = SELECT
      /\ \A k \in DenylistedSubstrings : ~Occurs(u, k)
\* a lower-case select that names an extended procedure has been rejected
C4_Witness ==
  /\ verdict.done
  /\ ~verdict.value
  /\ sqlIn = JsString(<<"s", "e", "l", "e", "c", "t", " ", "x", "p", "_">>)

\* C5: on every path through the execution step the handle created for the
\* generated SQL is closed (its pool slot released) by the time the handler
\* has sent its response.
C5_ExecutionHandleClosed ==
  \A r \in DOMAIN req :
    (req[r].pc = "done" /\ req[r].execConn # 0) =>
      ~handles[req[r].execConn].pool

\* C6: the handle opened for schema introspection is closed before the
\* handler returns, whether the introspection query succeeds or fails.
C6_SchemaHandleClosed ==
  \A r \in DOMAIN req :
    (req[r].pc = "done" /\ req[r].schemaConn # 0) =>
      ~handles[req[r].schemaConn].pool

\* C7: every execute request that reaches the validation step has appended
\* exactly one QueryAttempt by the time its response is sent, whatever the
\* outcome and however concurrent requests interleave.
C7_ExactlyOneAttempt ==
  \A r \in DOMAIN req :
    (req[r].pc = "done" /\ req[r].sql # NoSql) => Len(req[r].written) = 1

\* C8: after any sequence of createDatabaseConfig and updateDatabaseConfig
\* calls at most one stored configuration is active.
C8_AtMostOneActive == Cardinality(ActiveIds) <= 1
\* three configurations, the second of them the active one
C8_Witness == Len(databaseConfigs) >= 3 /\ ActiveIds = {2}

\* C9: creating a configuration with isActive = true leaves exactly one
\* active configuration, the new one, however many existed before.
C9_CreateActiveLeavesOnlyNew ==
  [][(/\ currentConfigId' = currentConfigId + 1
      /\ databaseConfigs'[currentConfigId].isActive)
       => {i \in 1..Len(databaseConfigs') : databaseConfigs'[i].isActive}
            = {currentConfigId}]_vars
\* a third configuration was created active over two existing ones
C9_Witness ==
  /\ Len(databaseConfigs) >= 3
  /\ databaseConfigs[3].isActive
  /\ ActiveIds = {3}
  /\ currentConfigId = 4

\* C10: with no active configuration an execute request is answered 400 "no
\* active configuration"; the generator is never called, no connection is
\* created and history is left unchanged.
C10_NoActiveConfigRejected ==
  \A r \in DOMAIN req :
    (req[r].query # NoQuery /\ req[r].dbConfig = NoConfig) =>
      /\ req[r].pc = "done"
      /\ req[r].response.status = 400
      /\ req[r].response.message = "No active database configuration found"
      /\ req[r].generatorCalls = 0
      /\ req[r].factoryCalls = 0
      /\ HandlesOf(r) = {}
      /\ req[r].written = <<>>
\* a well-formed request was answered while no configuration was active
C10_Witness ==
  \E r \in DOMAIN req :
    /\ req[r].query # NoQuery
    /\ req[r].dbConfig = NoConfig
    /\ ActiveIds = {}
    /\ req[r].response.status = 400

\* the generated SQL of request r is one the validator accepts
SafeGenerated(r) == req[r].sql # NoSql /\ validateSQLQuery(req[r].sql)

\* C11: when the execution of safe generated SQL fails the handler appends
\* one QueryAttempt with status error, the underlying error message, results
\* null and rowCount 0, and answers 500 with a message and the generated SQL.
C11_ExecutionFailureRecorded ==
  \A r \in DOMAIN req :
    (/\ req[r].pc = "done"
     /\ req[r].dbError \in {executeQueryError(c) : c \in BackendErrors}
     /\ SafeGenerated(r)) =>
      /\ Len(req[r].written) = 1
      /\ req[r].written[1].status = "error"
      /\ req[r].written[1].errorMessage = req[r].dbError
      /\ req[r].written[1].results = NoResults
      /\ req[r].written[1].rowCount = 0
      /\ req[r].response.status = 500
      /\ req[r].response.message = failedMessage(req[r].dbError)
      /\ req[r].response.hasSql
      /\ req[r].response.generatedSql = req[r].sql
\* the backend timed out on a safe SELECT and the request has been answered
C11_Witness ==
  \E r \in DOMAIN req :
    /\ req[r].pc = "done"
    /\ req[r].dbError = executeQueryError("timeout")
    /\ SafeGenerated(r)
    /\ req[r].response.status = 500
    /\ queryHistory # <<>>

\* C12: when safe generated SQL executes successfully and the backend returns
\* n rows, the response has status success, rowCount n and the rows, and the
\* request has appended exactly one QueryAttempt, a success whose generatedSql,
\* rowCount, executionTime and results equal the response's.
C12_SuccessRecordedAndReturned ==
  \A r \in DOMAIN req :
    (/\ req[r].pc = "done"
     /\ ~req[r].queryResult.isNull
     /\ SafeGenerated(r)) =>
      /\ req[r].response.status = 200
      /\ req[r].response.resultStatus = "success"
      /\ req[r].response.rowCount = req[r].queryResult.rows
      /\ req[r].response.results = req[r].queryResult
      /\ Len(req[r].written) = 1
      /\ req[r].written[1].status = "success"
      /\ req[r].written[1].generatedSql = req[r].response.generatedSql
      /\ req[r].written[1].rowCount = req[r].response.rowCount
      /\ req[r].written[1].executionTime = req[r].response.executionTime
      /\ req[r].written[1].results = req[r].response.results

\* C13: a failure at any point of schema introspection (creating the handle,
\* connecting, running the introspection query, folding the rows) does not
\* abort the request: in the same step the handler calls the generator, with
\* an empty schema context.
C13_SchemaFailureFallsThrough ==
  [][\A r \in DOMAIN req :
       (\/ /\ req[r].pc = "idle"
           /\ req'[r].factoryCalls = 1
           /\ req'[r].schemaConn = 0
        \/ /\ req[r].pc = "schemaQuery"
           /\ req'[r].pc \notin {"schemaQuery", "schemaClose"})
        => /\ req'[r].pc = "generating"
           /\ req'[r].generatorCalls = req[r].generatorCalls + 1
           /\ req'[r].genSchema = ""]_vars
\* the factory refused the configured type and the generator has been called
C13_Witness ==
  \E r \in DOMAIN req :
    /\ req[r].factoryCalls = 1
    /\ req[r].schemaConn = 0
    /\ req[r].generatorCalls = 1
    /\ req[r].genSchema = ""

\* C14: a failure of the SQL-generation call is saved as an error
\* QueryAttempt before the error response is returned.
C14_GenerationFailureRecorded ==
  \A r \in DOMAIN req :
    (/\ req[r].pc = "done"
     /\ req[r].generatorCalls = 1
     /\ req[r].sql = NoSql) =>
      /\ Len(req[r].written) = 1
      /\ req[r].written[1].status = "error"

\* C15: when the active configuration has a backend type the factory does not
\* recognise, the failure is reported to the caller and the request writes no
\* QueryAttempt.
C15_UnsupportedBackendNotRecorded ==
  \A r \in DOMAIN req :
    (/\ req[r].pc = "done"
     /\ req[r].dbConfig # NoConfig
     /\ ~createConnection(req[r].dbConfig.type,
                          req[r].dbConfig.connectionString).ok) =>
      /\ req[r].response.status >= 400
      /\ req[r].written = <<>>

\* C16: a request whose query is missing, not a string, empty or longer than
\* 500 characters is answered 400 "invalid request data" with no side effect:
\* the store is not read, the generator is not called, no connection is
\* created and the request writes nothing to history.
C16_MalformedInputRejected ==
  \A r \in DOMAIN req :
    (/\ req[r].pc # "idle"
     /\ ~(/\ req[r].body.type = "string"
          /\ req[r].body.length >= MinQueryLength
          /\ req[r].body.length <= MaxQueryLength)) =>
      /\ req[r].pc = "done"
      /\ req[r].response.status = 400
      /\ req[r].response.message = "Invalid request data"
      /\ req[r].query = NoQuery
      /\ req[r].dbConfig = NoConfig
      /\ req[r].generatorCalls = 0
      /\ req[r].factoryCalls = 0
      /\ HandlesOf(r) = {}
      /\ req[r].written = <<>>
\* a query one character over the limit has been answered 400
C16_Witness ==
  \E r \in DOMAIN req :
    /\ req[r].body = [type |-> "string", length |-> MaxQueryLength + 1]
    /\ req[r].response.status = 400
    /\ req[r].responses = 1

C18_ListingNewestFirst ==
  \A i, j \in 1..Len(listed) : i < j => listed[i].id > listed[j].id

\* C19: whatever executions have completed, the listing taken right after a
\* clear of the history, under any limit, is the empty sequence.
C19_ClearThenListEmpty ==
  [][ClearHistory =>
       \A limit \in LimitInputs : historyRoute(queryHistory', limit) = <<>>]_vars
\* both requests have completed and saved entries, and the history is empty
C19_Witness ==
  /\ queryHistory = <<>>
  /\ \A r \in ConcurrentRequests : req[r].pc = "done" /\ req[r].written # <<>>

\* the close() calls on handle h that awaited the release of a pool and
\* cleared the slot
Cleared(h) ==
  {c \in 1..Len(calls) :
     calls[c].handle = h /\ calls[c].kind = "close" /\ calls[c].pc = "resolved"}

\* C20: a handle holds at most one pool at a time: a pool is created only by
\* an executeQuery or testConnection call that finds the slot empty, a call
\* that finds it filled is given the pool in it (also while an earlier call
\* is pending or after one failed), and the slot is emptied only by a close()
\* whose release resolves.
C20_OnePoolPerHandle ==
  /\ [](\A h \in 1..Len(handles) :
          /\ handles[h].poolsCreated <= 1 + Cardinality(Cleared(h))
          /\ \A c \in 1..Len(calls) :
               (calls[c].handle = h /\ calls[c].kind \in QueryCalls) =>
                 /\ calls[c].pool >= 1
                 /\ calls[c].pool <= handles[h].poolsCreated)
  /\ [][\A h \in 1..Len(handles) :
          /\ handles[h].pool =>
               /\ handles'[h].poolsCreated = handles[h].poolsCreated
               /\ Len(calls') > Len(calls) =>
                    Last(calls').pool = handles[h].poolsCreated
          /\ (~handles[h].pool /\ handles'[h].pool) =>
               /\ handles'[h].poolsCreated = handles[h].poolsCreated + 1
               /\ Len(calls') = Len(calls) + 1
               /\ Last(calls').kind \in QueryCalls
               /\ Last(calls').pool = handles'[h].poolsCreated
          /\ (handles[h].pool /\ ~handles'[h].pool) =>
               \E c \in 1..Len(calls) :
                 /\ calls[c].handle = h
                 /\ calls[c].kind = "close"
                 /\ calls[c].pc = "pending"
                 /\ calls'[c].pc = "resolved"]_vars
\* on a SQL Server handle one call has failed and two are pending, all three
\* on the one pool the handle ever created
C20_Witness ==
  /\ Len(calls) = 3
  /\ handles[1].variant = "SQLServerConnection"
  /\ handles[1].pool
  /\ handles[1].poolsCreated = 1
  /\ calls[1].io = "getPool failed"
  /\ calls[2].pc = "pending"
  /\ calls[3].pc = "pending"
  /\ \A c \in 1..3 : calls[c].kind \in QueryCalls /\ calls[c].pool = 1

\* C21: close() is idempotent: on a handle that never connected it returns
\* at once, and however many close() calls are made on a handle, one after
\* another or overlapping, each pool the handle created is released at most
\* once.
C21_CloseIdempotent ==
  \A h \in 1..Len(handles) :
    /\ handles[h].released <= handles[h].poolsCreated
    /\ \A c \in 1..Len(calls) :
         (/\ calls[c].handle = h
          /\ calls[c].kind = "close"
          /\ calls[c].pool = 0) => calls[c].pc = "returned"

\* C26: testConnection() never raises: on both variants a call that has
\* settled has returned, with true when the SELECT 1 query answered and with
\* false when getPool (creating the pool, connecting) or the query failed.
C26_TestConnectionNeverRaises ==
  \A c \in 1..Len(calls) :
    calls[c].kind = "testConnection" =>
      /\ calls[c].pc \in {"pending", "resolved"}
      /\ calls[c].pc = "resolved" =>
           /\ calls[c].value \in {"true", "false"}
           /\ (calls[c].value = "true") <=> (calls[c].io = "ok")
\* on a SQL Server handle one testConnection answered false after its connect
\* failed, another answered true
C26_Witness ==
  /\ handles[1].variant = "SQLServerConnection"
  /\ \E c, d \in 1..Len(calls) :
       /\ calls[c].kind = "testConnection"
       /\ calls[c].io = "getPool failed"
       /\ calls[c].value = "false"
       /\ calls[d].kind = "testConnection"
       /\ calls[d].value = "true"

\* C25: the type of a stored configuration never changes once the
\* configuration is created, whatever createDatabaseConfig and
\* updateDatabaseConfig calls follow.
C25_TypeNeverChanges ==
  [][\A i \in 1..Len(databaseConfigs) :
       databaseConfigs'[i].type = databaseConfigs[i].type]_vars

\* C27: the validator never raises: for every input, a value that is no
\* string included, its promise resolves with a boolean, and with false when
\* the body failed.
C27_ValidatorNeverRaises ==
  verdict.done =>
    /\ ~verdict.raised
    /\ verdict.value \in BOOLEAN
    /\ (sqlIn.type # "string" \/ tryValidate(sqlIn).threw) => ~verdict.value
\* a number was validated: the promise resolved with false
C27_Witness ==
  /\ verdict.done
  /\ sqlIn = JsNumber
  /\ ~verdict.raised
  /\ ~verdict.value

\* C28: the schema-introspection query issued on a handle is of the dialect
\* of the variant the factory constructed: the 'public' query on a
\* PostgreSQLConnection, the 'dbo' query on a SQLServerConnection, for the
\* type tag in any letter casing.
C28_SchemaDialectMatchesVariant ==
  \A h \in 1..Len(handles) :
    handles[h].purpose = "schema" =>
      /\ handles[h].variant = "PostgreSQLConnection" => handles[h].query = "public"
      /\ handles[h].variant = "SQLServerConnection" => handles[h].query = "dbo"

\* C29: an in-flight execute request uses one snapshot of the configuration:
\* every handle it obtained from the factory, for schema introspection and
\* for execution, carries the connection string and the variant of the type
\* of the configuration it loaded, that configuration was the active one at
\* the moment of loading, and its type and connection string do not change
\* afterwards, whatever configurations are created or activated meanwhile.
C29_OneConfigSnapshot ==
  /\ [](\A r \in DOMAIN req : \A h \in HandlesOf(r) :
          /\ handles[h].connectionString = req[r].dbConfig.connectionString
          /\ handles[h].variant =
               createConnection(req[r].dbConfig.type,
                                req[r].dbConfig.connectionString).variant)
  /\ [][\A r \in DOMAIN req :
          /\ (req[r].dbConfig = NoConfig /\ req'[r].dbConfig # NoConfig)
               => req'[r].dbConfig = getActiveDatabaseConfig(databaseConfigs)
          /\ req[r].dbConfig # NoConfig
               => /\ req'[r].dbConfig # NoConfig
                  /\ req'[r].dbConfig.type = req[r].dbConfig.type
                  /\ req'[r].dbConfig.connectionString =
                       req[r].dbConfig.connectionString]_vars
\* a request holds its execution handle, made for the configuration it loaded,
\* while a configuration with another connection string is the active one
C29_Witness ==
  \E r \in DOMAIN req :
    /\ req[r].execConn # 0
    /\ req[r].pc = "executing"
    /\ getActiveDatabaseConfig(databaseConfigs) # NoConfig
    /\ getActiveDatabaseConfig(databaseConfigs).connectionString
         # handles[req[r].execConn].connectionString
    /\ getActiveDatabaseConfig(databaseConfigs).id # req[r].dbConfig.id

SQLSERVER  == <<"S", "Q", "L", "S", "E", "R", "V", "E", "R">>
POSTGRESQL == <<"P", "O", "S", "T", "G", "R", "E", "S", "Q", "L">>
\* s is lower written with each letter in either case
SameLetters(s, lower, upper) ==
  /\ Len(s) = Len(lower)
  /\ \A i \in 1..Len(lower) : s[i] = lower[i] \/ s[i] = upper[i]

\* C22: the factory matches the type tag case-insensitively: a connection
\* test whose type is 'sqlserver' in any letter casing obtains a
\* SQLServerConnection, one whose type is 'postgresql' in any casing a
\* PostgreSQLConnection, and for every other tag no handle is created and the
\* request is answered with the unsupported-type error.
C22_FactoryMatchesAnyCasing ==
  \A t \in DOMAIN tests :
    (/\ tests[t].pc # "idle"
     /\ tests[t].body.type.type = "string"
     /\ tests[t].body.type.chars # <<>>
     /\ tests[t].body.connectionString # "")
    => LET tag == tests[t].body.type.chars IN
       IF SameLetters(tag, sqlserver, SQLSERVER)
       THEN /\ tests[t].conn # 0
            /\ handles[tests[t].conn].variant = "SQLServerConnection"
       ELSE IF SameLetters(tag, postgresql, POSTGRESQL)
       THEN /\ tests[t].conn # 0
            /\ handles[tests[t].conn].variant = "PostgreSQLConnection"
       ELSE /\ tests[t].conn = 0
            /\ HandlesOf(t) = {}
            /\ tests[t].pc = "done"
            /\ tests[t].response.status = 500
            /\ tests[t].response.message = "Unsupported database type"
\* a test with the tag in mixed case holds a SQLServerConnection
C22_Witness ==
  \E t \in DOMAIN tests :
    /\ tests[t].body.type.type = "string"
    /\ tests[t].body.type.chars \notin {sqlserver, SQLSERVER}
    /\ SameLetters(tests[t].body.type.chars, sqlserver, SQLSERVER)
    /\ tests[t].conn # 0
    /\ handles[tests[t].conn].variant = "SQLServerConnection"

\* the handles a request refers to
RequestRefs(r) == {req[r].schemaConn, req[r].execConn} \ {0}
TestRefs(t) == {tests[t].conn} \ {0}
\* the request o takes the step
OwnerMoves(o) ==
  IF o \in DOMAIN req THEN req'[o] # req[o]
  ELSE o \in DOMAIN tests /\ tests'[o] # tests[o]

\* C23: connection handles are never shared between requests: the manager
\* keeps no handle, every handle a request refers to was created for that
\* request, its two factory calls gave two handles, and a handle is created,
\* used and closed only in steps of the request it was created for.
C23_HandlesNeverShared ==
  /\ [](/\ connections = {}
        /\ \A r \in DOMAIN req :
             /\ \A h \in RequestRefs(r) : handles[h].owner = r
             /\ req[r].schemaConn # 0 => req[r].schemaConn # req[r].execConn
        /\ \A t \in DOMAIN tests : \A h \in TestRefs(t) : handles[h].owner = t)
  /\ [][/\ Len(handles') >= Len(handles)
        /\ \A h \in 1..Len(handles) :
             /\ handles'[h].owner = handles[h].owner
             /\ handles'[h] # handles[h] => OwnerMoves(handles[h].owner)
        /\ \A h \in (Len(handles) + 1)..Len(handles') :
             OwnerMoves(handles'[h].owner)]_vars
\* an execute request and a test request each hold a handle with I/O pending,
\* the test's handle created between the two of the execute request
C23_Witness ==
  \E r \in DOMAIN req, t \in DOMAIN tests :
    /\ req[r].pc = "executing"
    /\ tests[t].pc = "closing"
    /\ req[r].schemaConn # 0
    /\ req[r].schemaConn < tests[t].conn
    /\ tests[t].conn < req[r].execConn

\* C24: no step of a connection-test request changes the configuration
\* store, its id counter, the history or its id counter, whatever the type
\* and connection string and however the test ends.
C24_TestLeavesStoreAlone ==
  [][\A t \in DOMAIN tests :
       tests'[t] # tests[t]
         => UNCHANGED <<databaseConfigs, currentConfigId, queryHistory,
                        currentHistoryId>>]_vars
\* a test has been answered with success while the history holds an entry
C24_Witness ==
  \E t \in DOMAIN tests :
    /\ tests[t].pc = "done"
    /\ tests[t].response.status = 200
    /\ queryHistory # <<>>

=============================================================================
